---- MODULE Spec2Model ----
(***************************************************************************)
(* Model of hio.core.memoing: the MemoGram mixin (receive store, memo and  *)
(* gram queues, single transmit buffer, greedy and non-greedy service      *)
(* methods) driven against a datagram transport.                           *)
(*                                                                         *)
(* Text (str) is a sequence of code points, wire data (bytes, bytearray)   *)
(* a sequence of byte values.  str.encode() and bytes.decode() are UTF-8.  *)
(***************************************************************************)
EXTENDS Integers, Sequences, FiniteSets, TLC

VARIABLES
    opened,   \* .opened: the transport is open
    rxgs,     \* .rxgs: insertion ordered dict src -> deque of received grams
    rxms,     \* .rxms: deque of (memo, src)
    txms,     \* .txms: deque of (memo, dst)
    txgs,     \* .txgs: deque of (gram, dst)
    txbs,     \* .txbs: (bytearray, dst), dst None when nothing is in flight
    inbox,    \* transport: datagrams (bytes, src) waiting for .receive()
    sent,     \* transport: (bytes, dst) the transport accepted from .send()
    last,     \* the last method called: its name, its result, the outcomes of
              \* the transport sends it made, the memos it took off .rxms and
              \* the serviceTymers calls it made
    memoed,   \* the (memo, dst) handed to memoit so far
    narr,     \* number of datagrams that have arrived at the transport
    link,     \* transport: the outcomes a send to each destination may have
    tyme,     \* scheduler: parity of the doer cycles run so far
    doer      \* scheduler: where the doer of the engine is in its life

vars == <<opened, rxgs, rxms, txms, txgs, txbs, inbox, sent, last, memoed,
          narr, link, tyme, doer>>

\* what the methods of the engine leave alone
env == <<memoed, narr, link, tyme, doer>>

(* ------------------------------ bounds --------------------------------- *)
\* memoit calls the application makes in one behaviour
MaxMemos == 2
\* datagrams that arrive at the transport in one behaviour
MaxArrive == 4
\* memoit calls and arriving datagrams together in one behaviour of Spec,
\* where both sides of the engine run
MaxInputs == 2

(* ------------------------- values of the model ------------------------- *)
\* the value None of the source
None == "None"
\* memos handed to memoit: "" and "e acute" (U+00E9, two bytes in UTF-8)
Memos == {<<>>, <<233>>}
\* destination addresses handed to memoit: two peers and the empty address
Dsts == {"x", "y", ""}
\* source addresses the transport reports
Srcs == {"A", "B"}
\* datagrams the transport can deliver: an empty one, "e acute", and one cut
\* inside a character
Datagrams == {<<>>, <<195, 169>>, <<195>>}
\* outcomes of one transport send: the transport accepts all the bytes, only
\* the first one, or none of them, or raises OSError with the errno named
AcceptAll == "all"
AcceptOne == "one"
AcceptNone == "none"
Unreachable == "ECONNREFUSED"
NoBufs == "ENOBUFS"
SendOutcomes == {AcceptAll, AcceptOne, AcceptNone, Unreachable, NoBufs}
\* a transport of which nothing is known: any outcome for any destination
AnyNet == [dst \in Dsts |-> SendOutcomes]
\* a transport that accepts every send whole, as the stub send() does
FullNet == [dst \in Dsts |-> {AcceptAll}]

\* truth value of a destination in a Python condition
Truthy(d) == d # None /\ d # ""

Min(a, b) == IF a < b THEN a ELSE b

(* ------------------------------ UTF-8 ---------------------------------- *)
\* str.encode(): one byte below U+0080, two bytes below U+0800
RECURSIVE encode(_)
encode(s) ==
    IF s = <<>> THEN <<>>
    ELSE LET c == Head(s)
         IN  (IF c < 128 THEN <<c>>
              ELSE <<192 + (c \div 64), 128 + (c % 64)>>) \o encode(Tail(s))

\* bytes.decode() is defined where it succeeds
RECURSIVE decodable(_)
decodable(b) ==
    IF b = <<>> THEN TRUE
    ELSE IF Head(b) < 128 THEN decodable(Tail(b))
    ELSE IF Head(b) >= 194 /\ Head(b) < 224
         THEN /\ Len(b) >= 2
              /\ b[2] >= 128 /\ b[2] < 192
              /\ decodable(Tail(Tail(b)))
    ELSE FALSE

RECURSIVE decode(_)
decode(b) ==
    IF b = <<>> THEN <<>>
    ELSE IF Head(b) < 128 THEN <<Head(b)>> \o decode(Tail(b))
    ELSE <<(Head(b) - 192) * 64 + (b[2] - 128)>> \o decode(Tail(Tail(b)))

(* --------------------------- engine records ---------------------------- *)
\* Methods are operators from an engine record (the instance's attributes,
\* the transport's two ends, the result "ret" of the method and the outcomes
\* "outs" of the transport sends it made, the (memo, src) "got" it took off
\* .rxms, what each serviceTymers it ran found in "tyms") to the engine
\* record it leaves.
\* ret is "True", "False", "None" or the name of the exception raised.
Exceptions == {"UnboundLocalError", "OSError", "UnicodeDecodeError", "Hang"}
raised(e) == e.ret \in Exceptions

Bool(b) == IF b THEN "True" ELSE "False"

\* the engine as the variables hold it, before a method runs
Self ==
    [opened |-> opened, rxgs |-> rxgs, rxms |-> rxms, txms |-> txms,
     txgs |-> txgs, txbs |-> txbs, inbox |-> inbox, sent |-> sent,
     ret |-> None, outs |-> <<>>, got |-> <<>>, tyms |-> <<>>]

\* a method that returns v without raising
return(e, v) == [e EXCEPT !.ret = v]

(* --------------------- the ordered dict .rxgs -------------------------- *)
\* src in self.rxgs
HasSrc(d, src) == \E i \in 1..Len(d) : d[i].src = src
\* self.rxgs[src]
GramsOf(d, src) == d[CHOOSE i \in 1..Len(d) : d[i].src = src].grams
\* self.rxgs[src] = grams: a new key goes last, an old key keeps its place
SetGrams(d, src, grams) ==
    IF HasSrc(d, src)
    THEN [i \in 1..Len(d) |-> IF d[i].src = src
                              THEN [src |-> src, grams |-> grams] ELSE d[i]]
    ELSE Append(d, [src |-> src, grams |-> grams])
\* del self.rxgs[src]
DelSrc(d, src) == SelectSeq(d, LAMBDA r : r.src # src)
\* list(self.rxgs.keys())
Keys(d) == [i \in 1..Len(d) |-> d[i].src]

(* ---------------------------- receive side ----------------------------- *)
\* the transport's receive(): the oldest waiting datagram, (b'', None) if none
receive(e) ==
    IF e.inbox = <<>>
    THEN [gram |-> <<>>, src |-> None, inbox |-> <<>>]
    ELSE [gram |-> Head(e.inbox)[1], src |-> Head(e.inbox)[2],
          inbox |-> Tail(e.inbox)]

serviceOneReceived(e) ==
    LET r  == receive(e)
        e1 == [e EXCEPT !.inbox = r.inbox]
    IN  IF r.gram = <<>>
        THEN return(e1, "False")
        ELSE LET d == IF HasSrc(e1.rxgs, r.src) THEN e1.rxgs
                      ELSE SetGrams(e1.rxgs, r.src, <<>>)
             IN  return([e1 EXCEPT !.rxgs =
                             SetGrams(d, r.src, Append(GramsOf(d, r.src), r.gram))],
                        "True")

serviceReceivesOnce(e) ==
    IF e.opened THEN return(serviceOneReceived(e), None) ELSE return(e, None)

RECURSIVE serviceReceives(_)
serviceReceives(e) ==
    IF ~e.opened THEN return(e, None)
    ELSE LET e1 == serviceOneReceived(e)
         IN  IF e1.ret = "False" THEN return(e1, None) ELSE serviceReceives(e1)

\* desegment(grams): the memo (None if there is none), the deque as it is
\* left, and the exception raised if any
desegment(grams) ==
    IF grams = <<>>
    THEN [memo |-> None, grams |-> grams, exc |-> None]
    ELSE IF decodable(Head(grams))
    THEN [memo |-> decode(Head(grams)), grams |-> Tail(grams), exc |-> None]
    ELSE [memo |-> None, grams |-> Tail(grams), exc |-> "UnicodeDecodeError"]

\* the loop of _serviceOnceRxGrams over the keys left of the snapshot;
\* good is any(goods) so far
RECURSIVE serviceOnceRxGramsLoop(_, _, _)
serviceOnceRxGramsLoop(e, keys, good) ==
    IF keys = <<>> THEN return(e, Bool(good))
    ELSE LET src == Head(keys)
             r   == desegment(GramsOf(e.rxgs, src))
             d1  == SetGrams(e.rxgs, src, r.grams)
             ms  == IF r.memo # None THEN Append(e.rxms, <<r.memo, src>>)
                    ELSE e.rxms
             d2  == IF r.grams = <<>> THEN DelSrc(d1, src) ELSE d1
         IN  IF r.exc # None
             THEN return([e EXCEPT !.rxgs = d1], r.exc)
             ELSE serviceOnceRxGramsLoop(
                      [e EXCEPT !.rxgs = d2, !.rxms = ms], Tail(keys),
                      good \/ (r.memo # None /\ HasSrc(d2, src)))

serviceOnceRxGrams(e) == serviceOnceRxGramsLoop(e, Keys(e.rxgs), FALSE)

serviceRxGramsOnce(e) ==
    IF e.rxgs # <<>>
    THEN LET e1 == serviceOnceRxGrams(e)
         IN  IF raised(e1) THEN e1 ELSE return(e1, None)
    ELSE return(e, None)

RECURSIVE serviceRxGrams(_)
serviceRxGrams(e) ==
    IF e.rxgs = <<>> THEN return(e, None)
    ELSE LET e1 == serviceOnceRxGrams(e)
         IN  IF raised(e1) THEN e1
             ELSE IF e1.ret = "False" THEN return(e1, None)
             ELSE serviceRxGrams(e1)

\* _serviceOneRxMemo is called on a non-empty deque, or its IndexError is
\* caught by the caller
serviceOneRxMemo(e) ==
    [e EXCEPT !.rxms = Tail(e.rxms), !.got = Append(@, Head(e.rxms))]

serviceRxMemosOnce(e) ==
    IF e.rxms = <<>> THEN return(e, None) ELSE return(serviceOneRxMemo(e), None)

RECURSIVE serviceRxMemos(_)
serviceRxMemos(e) ==
    IF e.rxms = <<>> THEN return(e, None) ELSE serviceRxMemos(serviceOneRxMemo(e))

\* the stages run in sequence; an exception out of one ends the call
\* (serviceReceivesOnce and serviceReceives raise nothing)
serviceAllRxOnce(e) ==
    LET e1 == serviceRxGramsOnce(serviceReceivesOnce(e))
    IN  IF raised(e1) THEN e1 ELSE serviceRxMemosOnce(e1)

\* a greedy receive service that leaves the memos in .rxms
serviceAllRxKeep(e) == serviceRxGrams(serviceReceives(e))

serviceAllRx(e) ==
    LET e1 == serviceRxGrams(serviceReceives(e))
    IN  IF raised(e1) THEN e1 ELSE serviceRxMemos(e1)

(* --------------------------- transmit side ----------------------------- *)
\* nothing in flight: (bytearray(), None)
Idle == <<<<>>, None>>

\* bytes the transport takes of n offered under outcome o
Accepted(o, n) ==
    IF o = AcceptAll THEN n ELSE IF o = AcceptOne THEN Min(1, n) ELSE 0

\* what reaches the wire: the bytes accepted by one send as one datagram;
\* a send that accepted nothing of a non-empty buffer puts nothing there
Wire(w, bytes, cnt, dst) ==
    IF cnt = 0 /\ bytes # <<>> THEN w ELSE Append(w, <<SubSeq(bytes, 1, cnt), dst>>)

memoit(e, memo, dst) == return([e EXCEPT !.txms = Append(e.txms, <<memo, dst>>)], None)

\* a codec that yields the memo twice
segmentTwice(memo) == <<memo, memo>>

\* the placeholder codec: the memo is its only gram
segment(memo) == <<memo>>

\* self.txgs.append((gram, dst)) for gram in grams
RECURSIVE AppendGrams(_, _, _)
AppendGrams(q, grams, dst) ==
    IF grams = <<>> THEN q
    ELSE AppendGrams(Append(q, <<Head(grams), dst>>), Tail(grams), dst)

\* a segmentation step that takes the newest memo instead of the oldest
serviceOneTxMemoNewest(e) ==
    LET memo == e.txms[Len(e.txms)][1]
        dst  == e.txms[Len(e.txms)][2]
    IN  [e EXCEPT !.txms = SubSeq(e.txms, 1, Len(e.txms) - 1),
                  !.txgs = AppendGrams(e.txgs, segment(memo), dst)]

\* called on a non-empty deque, or its IndexError is caught by the caller
serviceOneTxMemo(e) ==
    LET memo == Head(e.txms)[1]
        dst  == Head(e.txms)[2]
    IN  [e EXCEPT !.txms = Tail(e.txms),
                  !.txgs = AppendGrams(e.txgs, segment(memo), dst)]

serviceTxMemosOnce(e) ==
    IF e.txms = <<>> THEN return(e, None) ELSE return(serviceOneTxMemo(e), None)

RECURSIVE serviceTxMemos(_)
serviceTxMemos(e) ==
    IF e.txms = <<>> THEN return(e, None) ELSE serviceTxMemos(serviceOneTxMemo(e))

\* sendGram with a handler that leaves .txbs alone when the peer is unreachable
sendGramKeep(e, gram, dst, o) ==
    LET e1 == [e EXCEPT !.outs = Append(@, o)]
    IN  IF o = Unreachable
        THEN return(e1, "UnboundLocalError")
        ELSE IF o = NoBufs
        THEN return(e1, "OSError")
        ELSE LET cnt  == Accepted(o, Len(gram))
                 rest == SubSeq(gram, cnt + 1, Len(gram))
                 dst1 == IF rest = <<>> THEN None ELSE dst
             IN  return([e1 EXCEPT !.txbs = <<rest, dst1>>,
                                   !.sent = Wire(@, gram, cnt, dst)],
                        Bool(~Truthy(dst1)))

\* sendGram with a handler that takes every OSError for a far peer problem
sendGramSwallow(e, gram, dst, o) ==
    LET e1 == [e EXCEPT !.outs = Append(@, o)]
    IN  IF o \in {Unreachable, NoBufs}
        THEN return([e1 EXCEPT !.txbs = Idle], "UnboundLocalError")
        ELSE LET cnt  == Accepted(o, Len(gram))
                 rest == SubSeq(gram, cnt + 1, Len(gram))
                 dst1 == IF rest = <<>> THEN None ELSE dst
             IN  return([e1 EXCEPT !.txbs = <<rest, dst1>>,
                                   !.sent = Wire(@, gram, cnt, dst)],
                        Bool(~Truthy(dst1)))

\* sendGram that never resets the destination once the gram is all sent
sendGramKeepDst(e, gram, dst, o) ==
    LET e1 == [e EXCEPT !.outs = Append(@, o)]
    IN  IF o = Unreachable
        THEN return([e1 EXCEPT !.txbs = Idle], "UnboundLocalError")
        ELSE IF o = NoBufs
        THEN return(e1, "OSError")
        ELSE LET cnt  == Accepted(o, Len(gram))
                 rest == SubSeq(gram, cnt + 1, Len(gram))
             IN  return([e1 EXCEPT !.txbs = <<rest, dst>>,
                                   !.sent = Wire(@, gram, cnt, dst)],
                        Bool(~Truthy(dst)))

\* sendGram that keeps the whole gram in the buffer after a partial send
sendGramResend(e, gram, dst, o) ==
    LET e1 == [e EXCEPT !.outs = Append(@, o)]
    IN  IF o = Unreachable
        THEN return([e1 EXCEPT !.txbs = Idle], "UnboundLocalError")
        ELSE IF o = NoBufs
        THEN return(e1, "OSError")
        ELSE LET cnt  == Accepted(o, Len(gram))
                 rest == IF cnt = Len(gram) THEN <<>> ELSE gram
                 dst1 == IF rest = <<>> THEN None ELSE dst
             IN  return([e1 EXCEPT !.txbs = <<rest, dst1>>,
                                   !.sent = Wire(@, gram, cnt, dst)],
                        Bool(~Truthy(dst1)))

\* the send and what follows it in _serviceOnceTxGrams, for the gram and dst
\* the pass holds; e is the engine after the load, o the outcome of the send
sendGram(e, gram, dst, o) ==
    LET e1 == [e EXCEPT !.outs = Append(@, o)]
    IN  IF o = Unreachable
        THEN \* the handler resets .txbs, then "del gram[:cnt]" reads cnt,
             \* which the failed send never bound
             return([e1 EXCEPT !.txbs = Idle], "UnboundLocalError")
        ELSE IF o = NoBufs
        THEN return(e1, "OSError")
        ELSE LET cnt  == Accepted(o, Len(gram))
                 rest == SubSeq(gram, cnt + 1, Len(gram))
                 dst1 == IF rest = <<>> THEN None ELSE dst
             IN  return([e1 EXCEPT !.txbs = <<rest, dst1>>,
                                   !.sent = Wire(@, gram, cnt, dst)],
                        Bool(~Truthy(dst1)))

\* the destination the next pass sends to, None if it has nothing to send
NextDst(e) ==
    IF e.txbs[2] # None THEN e.txbs[2]
    ELSE IF e.txgs # <<>> THEN Head(e.txgs)[2] ELSE None

\* a pass that takes the next gram whenever there is one, in flight or not
serviceOnceTxGramsEager(e, o) ==
    IF e.txgs # <<>>
    THEN sendGram([e EXCEPT !.txgs = Tail(e.txgs)],
                  encode(Head(e.txgs)[1]), Head(e.txgs)[2], o)
    ELSE IF e.txbs[2] = None THEN return(e, "False")
    ELSE sendGram(e, e.txbs[1], e.txbs[2], o)

\* one pass whose send, if it makes one, has outcome o
serviceOnceTxGrams(e, o) ==
    IF e.txbs[2] = None
    THEN IF e.txgs = <<>>
         THEN return(e, "False")
         ELSE sendGram([e EXCEPT !.txgs = Tail(e.txgs)],
                       encode(Head(e.txgs)[1]), Head(e.txgs)[2], o)
    ELSE sendGram(e, e.txbs[1], e.txbs[2], o)

\* The transport is not determined by the engine: net[dst] is the set of
\* outcomes a send to dst may have, and a method that sends is the set of
\* engines it may leave.
Outcomes(e, net) == IF NextDst(e) = None THEN {AcceptAll} ELSE net[NextDst(e)]

serviceOnceTxGramsAny(e, net) ==
    {serviceOnceTxGrams(e, o) : o \in Outcomes(e, net)}

\* a non-greedy transmit service that does not look at .opened
serviceTxGramsOnceUngated(e, net) ==
    IF e.txgs # <<>>
    THEN {IF raised(e1) THEN e1 ELSE return(e1, None) :
              e1 \in {serviceOnceTxGrams(e, o) :
                          o \in IF e.txbs[2] # None THEN net[e.txbs[2]]
                                ELSE net[Head(e.txgs)[2]]}}
    ELSE {return(e, None)}

serviceTxGramsOnce(e, net) ==
    IF e.opened /\ e.txgs # <<>>
    THEN {IF raised(e1) THEN e1 ELSE return(e1, None) :
              e1 \in serviceOnceTxGramsAny(e, net)}
    ELSE {return(e, None)}

\* a pass that returns True and leaves queue and buffer as they were is
\* repeated at once: while the transport keeps answering so the call does
\* not return ("Hang"); the other answers are the other outcomes of the pass
RECURSIVE serviceTxGrams(_, _)
serviceTxGrams(e, net) ==
    IF ~(e.opened /\ e.txgs # <<>>) THEN {return(e, None)}
    ELSE UNION {IF raised(e1) THEN {e1}
                ELSE IF e1.ret = "False" THEN {return(e1, None)}
                ELSE IF e1.txgs = e.txgs /\ e1.txbs = e.txbs
                THEN {return(e1, "Hang")}
                ELSE serviceTxGrams(e1, net) :
                    e1 \in serviceOnceTxGramsAny(e, net)}

serviceAllTxOnce(e, net) == serviceTxGramsOnce(serviceTxMemosOnce(e), net)

serviceAllTx(e, net) == serviceTxGrams(serviceTxMemos(e), net)

serviceLocal(e, net) == serviceTxGrams(serviceReceives(e), net)

serviceAllOnce(e, net) ==
    LET e1 == serviceAllRxOnce(e)
    IN  IF raised(e1) THEN {e1} ELSE serviceAllTxOnce(e1, net)

serviceAll(e, net) ==
    LET e1 == serviceAllRx(e)
    IN  IF raised(e1) THEN {e1} ELSE serviceAllTx(e1, net)

\* the alias "service = serviceAll" of the class body of MemoGram: the name
\* service is bound there, once, to the function MemoGram.serviceAll
service(e, net) == serviceAll(e, net)

(* -------------------- TymeeMemoGram: retry tymers ---------------------- *)
\* These are the methods of an engine class that lists TymeeMemoGram before
\* MemoGram among its bases; every other name resolves to MemoGram.
\* serviceTymers is a stub; each call of it is noted with the datagrams that
\* wait at the transport and the number of sends the call has made so far
serviceTymers(e) ==
    [e EXCEPT !.tyms = Append(@, [inbox |-> e.inbox, sends |-> Len(e.outs)])]

tymeeServiceLocal(e, net) == serviceTxGrams(serviceReceives(e), net)

tymeeServiceAllOnce(e, net) ==
    LET e1 == serviceAllRxOnce(e)
    IN  IF raised(e1) THEN {e1} ELSE serviceAllTxOnce(serviceTymers(e1), net)

tymeeServiceAll(e, net) ==
    LET e1 == serviceAllRx(e)
    IN  IF raised(e1) THEN {e1} ELSE serviceAllTx(serviceTymers(e1), net)

(* ------------------------------ lifecycle ------------------------------ *)
open(e) == return([e EXCEPT !.opened = TRUE], "True")
\* a close that also empties the Transmit Buffer
closeFlush(e) == return([e EXCEPT !.opened = FALSE, !.txbs = Idle], None)
close(e) == return([e EXCEPT !.opened = FALSE], None)
\* a reopen that toggles: it closes an open engine and opens a closed one
reopenToggle(e) == IF e.opened THEN close(e) ELSE open(close(e))
reopen(e) == open(close(e))

(* ------------------------------- actions ------------------------------- *)
\* the state after MemoGram() with the default arguments
Fresh ==
    /\ opened = FALSE
    /\ rxgs = <<>>
    /\ rxms = <<>>
    /\ txms = <<>>
    /\ txgs = <<>>
    /\ txbs = Idle
    /\ inbox = <<>>
    /\ sent = <<>>
    /\ last = [op |-> "__init__", ret |-> None, outs |-> <<>>, got |-> <<>>,
               tyms |-> <<>>]
    /\ memoed = <<>>
    /\ narr = 0
    /\ tyme = 0
    /\ doer = "init"

\* nothing is known of the transport
Init == Fresh /\ link = AnyNet

\* a call of method op that leaves the engine e; a method that never
\* returns is the last one the instance runs
Call(op, e) ==
    /\ last.ret # "Hang"
    /\ opened' = e.opened
    /\ rxgs' = e.rxgs
    /\ rxms' = e.rxms
    /\ txms' = e.txms
    /\ txgs' = e.txgs
    /\ txbs' = e.txbs
    /\ inbox' = e.inbox
    /\ sent' = e.sent
    /\ last' = [op |-> op, ret |-> e.ret, outs |-> e.outs, got |-> e.got,
                tyms |-> e.tyms]

Open == Call("open", open(Self)) /\ UNCHANGED env
Close == Call("close", close(Self)) /\ UNCHANGED env
Reopen == Call("reopen", reopen(Self)) /\ UNCHANGED env

\* a datagram from src reaches the transport
Arrive ==
    /\ narr < MaxArrive
    /\ \E gram \in Datagrams, src \in Srcs :
           inbox' = Append(inbox, <<gram, src>>)
    /\ narr' = narr + 1
    /\ UNCHANGED <<opened, rxgs, rxms, txms, txgs, txbs, sent, last, memoed,
                   link, tyme, doer>>

Memoit ==
    /\ Len(memoed) < MaxMemos
    /\ \E memo \in Memos, dst \in Dsts :
           /\ Call("memoit", memoit(Self, memo, dst))
           /\ memoed' = Append(memoed, <<memo, dst>>)
    /\ UNCHANGED <<narr, link, tyme, doer>>

ServiceReceivesOnce ==
    Call("serviceReceivesOnce", serviceReceivesOnce(Self)) /\ UNCHANGED env
ServiceReceives ==
    Call("serviceReceives", serviceReceives(Self)) /\ UNCHANGED env
OnceRxGrams ==
    Call("_serviceOnceRxGrams", serviceOnceRxGrams(Self)) /\ UNCHANGED env
ServiceRxGramsOnce ==
    Call("serviceRxGramsOnce", serviceRxGramsOnce(Self)) /\ UNCHANGED env
ServiceRxGrams ==
    Call("serviceRxGrams", serviceRxGrams(Self)) /\ UNCHANGED env
ServiceRxMemosOnce ==
    Call("serviceRxMemosOnce", serviceRxMemosOnce(Self)) /\ UNCHANGED env
ServiceRxMemos ==
    Call("serviceRxMemos", serviceRxMemos(Self)) /\ UNCHANGED env
ServiceAllRxOnce ==
    Call("serviceAllRxOnce", serviceAllRxOnce(Self)) /\ UNCHANGED env
ServiceAllRx ==
    Call("serviceAllRx", serviceAllRx(Self)) /\ UNCHANGED env

ServiceTxMemosOnce ==
    Call("serviceTxMemosOnce", serviceTxMemosOnce(Self)) /\ UNCHANGED env
ServiceTxMemos ==
    Call("serviceTxMemos", serviceTxMemos(Self)) /\ UNCHANGED env
\* _serviceOnceTxGrams assumes .opened
OnceTxGrams ==
    /\ opened
    /\ \E e \in serviceOnceTxGramsAny(Self, link) : Call("_serviceOnceTxGrams", e)
    /\ UNCHANGED env
ServiceTxGramsOnce ==
    /\ \E e \in serviceTxGramsOnce(Self, link) : Call("serviceTxGramsOnce", e)
    /\ UNCHANGED env
ServiceTxGrams ==
    /\ \E e \in serviceTxGrams(Self, link) : Call("serviceTxGrams", e)
    /\ UNCHANGED env
ServiceAllTxOnce ==
    /\ \E e \in serviceAllTxOnce(Self, link) : Call("serviceAllTxOnce", e)
    /\ UNCHANGED env
ServiceAllTx ==
    /\ \E e \in serviceAllTx(Self, link) : Call("serviceAllTx", e)
    /\ UNCHANGED env
ServiceLocal ==
    /\ \E e \in serviceLocal(Self, link) : Call("serviceLocal", e)
    /\ UNCHANGED env
ServiceAllOnce ==
    /\ \E e \in serviceAllOnce(Self, link) : Call("serviceAllOnce", e)
    /\ UNCHANGED env
ServiceAll ==
    /\ \E e \in serviceAll(Self, link) : Call("serviceAll", e)
    /\ UNCHANGED env

Lifecycle == Open \/ Close \/ Reopen

TxMethods ==
    \/ ServiceTxMemosOnce \/ ServiceTxMemos
    \/ OnceTxGrams \/ ServiceTxGramsOnce \/ ServiceTxGrams
    \/ ServiceAllTxOnce \/ ServiceAllTx

RxMethods ==
    \/ ServiceReceivesOnce \/ ServiceReceives
    \/ OnceRxGrams \/ ServiceRxGramsOnce \/ ServiceRxGrams
    \/ ServiceRxMemosOnce \/ ServiceRxMemos
    \/ ServiceAllRxOnce \/ ServiceAllRx

\* the transmit side: the application sends, nothing arrives
NextTx == Lifecycle \/ Memoit \/ TxMethods

SpecTx == Init /\ [][NextTx]_vars

\* the receive side: datagrams arrive, the application sends nothing
NextRx == Lifecycle \/ Arrive \/ RxMethods

SpecRx == Init /\ [][NextRx]_vars

\* both sides and the methods that serve both
Next ==
    \/ (Len(memoed) + narr < MaxInputs /\ (Memoit \/ Arrive))
    \/ Lifecycle \/ TxMethods \/ RxMethods
    \/ ServiceLocal \/ ServiceAllOnce \/ ServiceAll

Spec == Init /\ [][Next]_vars

(* ------------------------------ loopback ------------------------------- *)
\* The transport accepts every send whole and hands each datagram it sent
\* back to the same engine, which sees it as coming from Me.
Me == "A"

Loopback ==
    /\ sent # <<>>
    /\ inbox' = Append(inbox, <<Head(sent)[1], Me>>)
    /\ sent' = Tail(sent)
    /\ UNCHANGED <<opened, rxgs, rxms, txms, txgs, txbs, last, memoed, narr,
                   link, tyme, doer>>

NextLoop ==
    \/ Open
    \/ Memoit
    \/ ServiceTxMemos
    \/ ServiceTxGrams
    \/ Loopback
    \/ ServiceReceives
    \/ ServiceRxGrams

InitLoop == Fresh /\ link = FullNet

SpecLoop == InitLoop /\ [][NextLoop]_vars

\* every memo handed to memoit has gone all the way
Drained ==
    /\ txms = <<>> /\ txgs = <<>> /\ txbs = Idle
    /\ sent = <<>> /\ inbox = <<>> /\ rxgs = <<>>

MemosOf(q) == [i \in 1..Len(q) |-> q[i][1]]

\* C1: round trip. Once every memo handed to memoit has been segmented,
\* sent whole, looped back, received and reassembled, the Memo Receive
\* Queue holds exactly those memos, one entry each, the 0-byte memo included.
C1_RoundTrip == Drained => MemosOf(rxms) = MemosOf(memoed)

(* ------------------------- the scheduler's ticks ----------------------- *)
\* A scheduler calls a transmit service of an open engine again and again
\* (MemoGramDoer.recur calls peer.service() once per cycle), while the
\* transport changes between three conditions.
\* sends complete or are cut short, none fails
PartialNet == [dst \in Dsts |-> {AcceptAll, AcceptOne, AcceptNone}]
\* peer "x" takes nothing or is unreachable, the other sends complete
XDown ==
    [dst \in Dsts |-> IF dst = "x" THEN {AcceptNone, Unreachable} ELSE {AcceptAll}]
Weather == {PartialNet, FullNet, XDown}

Change ==
    /\ link' \in Weather \ {link}
    /\ UNCHANGED <<opened, rxgs, rxms, txms, txgs, txbs, inbox, sent, last,
                   memoed, narr, tyme, doer>>

TickTxGramsOnce ==
    /\ \E e \in serviceTxGramsOnce(Self, link) : Call("serviceTxGramsOnce", e)
    /\ tyme' = 1 - tyme
    /\ UNCHANGED <<memoed, narr, link, doer>>
TickTxGrams ==
    /\ \E e \in serviceTxGrams(Self, link) : Call("serviceTxGrams", e)
    /\ tyme' = 1 - tyme
    /\ UNCHANGED <<memoed, narr, link, doer>>
TickAll ==
    /\ \E e \in serviceAll(Self, link) : Call("serviceAll", e)
    /\ tyme' = 1 - tyme
    /\ UNCHANGED <<memoed, narr, link, doer>>

Tick == TickTxGramsOnce \/ TickTxGrams \/ TickAll

NextTicks == Open \/ Memoit \/ ServiceTxMemos \/ Change \/ Tick

InitTicks == Fresh /\ link \in Weather

\* the scheduler never stops calling
SpecTicks == InitTicks /\ [][NextTicks]_vars /\ WF_vars(Tick)

\* C2: a partially sent gram is retried until it drains. If from some point
\* on the transport accepts every send whole, then whenever the Transmit
\* Buffer holds the rest of a gram (for a peer address), the repeated
\* transmit service calls bring the buffer back to idle, whatever the Gram
\* Transmit Queue holds.
C2_RetriedUntilDrained ==
    <>[](link = FullNet) => [](Truthy(txbs[2]) => <>(txbs = Idle))

\* a gram for peer "y" waits in the Gram Transmit Queue
YQueued == \E i \in 1..Len(txgs) : txgs[i][2] = "y"

\* C6: a bad destination does not block the others. While sends to "x" never
\* complete or fail and sends to "y" always complete, every gram queued for
\* "y" leaves the Gram Transmit Queue under the repeated service calls.
C6_BadPeerDoesNotBlock ==
    [](link = XDown) => [](YQueued => <>(~YQueued))

(* ------------------------ claims: transmit side ------------------------ *)
\* the call described by l ended in a send that found the peer unreachable
Failed(l) == l.outs # <<>> /\ l.outs[Len(l.outs)] = Unreachable

\* the methods that make one transmit pass and nothing else
PassOps == {"_serviceOnceTxGrams", "serviceTxGramsOnce"}

\* C3: when the send of a transmit pass fails with a peer-unreachable error,
\* the pass returns False to its caller, and it has made that one send only.
C3_UnreachableReportsFalse ==
    (last.op = "_serviceOnceTxGrams" /\ Failed(last))
        => (last.ret = "False" /\ Len(last.outs) = 1)

\* C4: drop on unreachable. A call whose send finds the peer unreachable
\* leaves the Transmit Buffer idle; if the call is one pass, nothing reaches
\* the wire and the gram is gone from queue and buffer, freshly loaded or
\* partly sent; and the pass that follows takes the next gram of the Gram
\* Transmit Queue and sends it to its destination.
C4_Step ==
    /\ Failed(last') => txbs' = Idle
    /\ (Failed(last') /\ last'.op \in PassOps)
           => /\ sent' = sent
              /\ txgs' = IF txbs[2] = None THEN Tail(txgs) ELSE txgs
    /\ (Failed(last) /\ last'.op = "_serviceOnceTxGrams" /\ txgs # <<>>)
           => /\ txgs' = Tail(txgs)
              /\ Len(last'.outs) = 1
              /\ last'.outs[1] = AcceptAll
                     => /\ sent' = Append(sent, <<encode(Head(txgs)[1]),
                                                   Head(txgs)[2]>>)
                        /\ txbs' = Idle

C4_DropOnUnreachable == [][C4_Step]_vars

\* the first gram, for "x", went out in part and was dropped; the pass after
\* the drop sent the second gram whole
C4_Witness ==
    /\ Len(memoed) = 2
    /\ memoed[1] = <<<<233>>, "x">>
    /\ sent = <<<<<<195>>, "x">>, <<encode(memoed[2][1]), memoed[2][2]>>>>
    /\ txms = <<>> /\ txgs = <<>> /\ txbs = Idle
    /\ last.op = "_serviceOnceTxGrams"

IsPrefix(p, q) == Len(p) <= Len(q) /\ p = SubSeq(q, 1, Len(p))
IsSuffix(p, q) == Len(p) <= Len(q) /\ p = SubSeq(q, Len(q) - Len(p) + 1, Len(q))

\* a gram left the Gram Transmit Queue in this step (one memo is one gram)
Taken == Len(txms') + Len(txgs') < Len(txms) + Len(txgs)

\* the bytes of the datagrams w[i..j], joined
RECURSIVE Joined(_, _, _)
Joined(w, i, j) == IF i > j THEN <<>> ELSE w[i][1] \o Joined(w, i + 1, j)

\* C5: single in-flight. The Transmit Buffer's destination is None or one
\* destination; while it is not None, the first thing a call sends is a piece
\* of the buffer's bytes to the buffer's destination, a gram is taken from
\* the Gram Transmit Queue only after the whole rest of the buffer was sent
\* to that destination, and otherwise the buffer keeps its destination and
\* holds a suffix of what it held, or is idle.
C5_Step ==
    txbs[2] # None =>
        /\ sent' # sent =>
               /\ IsPrefix(sent, sent')
               /\ sent'[Len(sent) + 1][2] = txbs[2]
               /\ IsPrefix(sent'[Len(sent) + 1][1], txbs[1])
        /\ Taken =>
               \E k \in Len(sent) + 1 .. Len(sent') :
                   /\ \A i \in Len(sent) + 1 .. k : sent'[i][2] = txbs[2]
                   /\ Joined(sent', Len(sent) + 1, k) = txbs[1]
        /\ ~Taken =>
               \/ txbs' = Idle
               \/ txbs'[2] = txbs[2] /\ IsSuffix(txbs'[1], txbs[1])

C5_SingleInFlight ==
    /\ [](txbs[2] \in Dsts \cup {None})
    /\ [][C5_Step]_vars

\* the rest of a gram for "x" is in flight while a gram for "y" waits
C5_Witness ==
    /\ txbs = <<<<169>>, "x">>
    /\ txgs # <<>> /\ Head(txgs)[2] = "y"
    /\ sent = <<<<<<195>>, "x">>>>
    /\ last.op \in PassOps

\* what the first pass of a call offers the transport, and for whom
FirstGram == IF txbs[2] # None THEN txbs[1] ELSE encode(Head(txgs)[1])
FirstDst == IF txbs[2] # None THEN txbs[2] ELSE Head(txgs)[2]

\* C9: backpressure of greedy transmit. serviceTxGrams called with an empty
\* Gram Transmit Queue returns without a send; and when a send of it accepts
\* fewer bytes than it was offered, the call makes no other send and returns
\* with the unsent suffix and the same destination in the Transmit Buffer.
C9_Step ==
    (last'.op = "serviceTxGrams" /\ opened) =>
        /\ txgs = <<>> => (last'.outs = <<>> /\ sent' = sent /\ last'.ret = None)
        /\ (/\ txgs # <<>>
            /\ last'.outs[1] \in {AcceptAll, AcceptOne, AcceptNone}
            /\ Accepted(last'.outs[1], Len(FirstGram)) < Len(FirstGram))
               => /\ Len(last'.outs) = 1
                  /\ last'.ret = None
                  /\ txbs' = <<SubSeq(FirstGram,
                                      Accepted(last'.outs[1], Len(FirstGram)) + 1,
                                      Len(FirstGram)),
                               FirstDst>>

C9_GreedyBackpressure == [][C9_Step]_vars

(* ------------------------ claims: receive side ------------------------- *)
\* C7: Gram Receive Store invariant. Between operations every source that
\* is a key of .rxgs has a non-empty gram queue (a source without pending
\* grams is not a key).
C7_KeyedIffPending == \A i \in 1..Len(rxgs) : rxgs[i].grams # <<>>

\* place of key src in the iteration order of d
Pos(d, src) == CHOOSE i \in 1..Len(d) : d[i].src = src
\* b and a are keys of d and b comes first
Before(d, b, a) == HasSrc(d, a) /\ HasSrc(d, b) /\ Pos(d, b) < Pos(d, a)

\* the methods that make one reassembly pass and nothing else
RxPassOps == {"_serviceOnceRxGrams", "serviceRxGramsOnce"}

\* the entries a step appends to the Memo Receive Queue
NewMemos == SubSeq(rxms', Len(rxms) + 1, Len(rxms'))

\* src has grams waiting in the store d
Pending(d, src) == HasSrc(d, src) /\ GramsOf(d, src) # <<>>

\* C8: fairness by re-insertion. When a source A without pending grams (its
\* queue drained, or it never had one) gets a gram while source B has
\* pending grams, A goes behind B in the iteration order of the store;
\* sources keep their order while they stay in the store; and one
\* reassembly pass takes its memos from the sources in the order of the
\* store, so the pass processes B before A.
C8_Step ==
    /\ \A a, b \in Srcs :
           (~Pending(rxgs, a) /\ Pending(rxgs, b) /\ Pending(rxgs', a)
                /\ Pending(rxgs', b))
              => Before(rxgs', b, a)
    /\ \A a, b \in Srcs :
           (Before(rxgs, b, a) /\ HasSrc(rxgs', a) /\ HasSrc(rxgs', b))
              => Before(rxgs', b, a)
    /\ last'.op \in RxPassOps =>
           /\ IsPrefix(rxms, rxms')
           /\ \A i, j \in 1..Len(NewMemos) :
                  i < j => Before(rxgs, NewMemos[i][2], NewMemos[j][2])

C8_FairByReinsertion == [][C8_Step]_vars

\* datagrams of one source, none empty, each valid UTF-8
OneSource(q) ==
    /\ q # <<>>
    /\ \A i \in 1..Len(q) :
           q[i][2] = q[1][2] /\ q[i][1] # <<>> /\ decodable(q[i][1])

\* N such datagrams wait at an open transport, store and memo queue empty
GreedyRxCase == opened /\ rxgs = <<>> /\ rxms = <<>> /\ OneSource(inbox)

\* the memos of the datagrams q, one gram = one memo
Reassembled(q) == [i \in 1..Len(q) |-> <<decode(q[i][1]), q[i][2]>>]

\* C10 as stated: greedy receive draining. With N datagrams of one source
\* waiting at an open transport, serviceAllRx ends with the Memo Receive
\* Queue holding the N reassembled memos and no entry for the source in the
\* Gram Receive Store.
C10_Step ==
    (GreedyRxCase /\ ServiceAllRx)
        => (rxms' = Reassembled(inbox) /\ ~HasSrc(rxgs', inbox[1][2]))

C10_AmendedStep ==
    /\ (GreedyRxCase /\ ServiceAllRx)
          => /\ last'.ret = None
             /\ last'.got = Reassembled(inbox)
             /\ inbox' = <<>>
             /\ rxms' = <<>>
             /\ ~HasSrc(rxgs', inbox[1][2])
    /\ (ServiceAllRx /\ last'.ret = None) => (rxms' = <<>> /\ rxgs' = <<>>)

SpecFull == InitLoop /\ [][NextTx]_vars

\* the datagrams of the memos q, one per memo, each for its destination
GramsFor(q) == [i \in 1..Len(q) |-> <<encode(q[i][1]), q[i][2]>>]

\* C11: send order follows enqueue order. Against a transport that always
\* fully sends, serviceTxMemos moves every memo to the Gram Transmit Queue
\* in enqueue order, and a serviceTxGrams on the open engine after it leaves
\* the Gram Transmit Queue empty and the Transmit Buffer idle, having made
\* one whole send per queued gram; the transport has then got exactly one
\* datagram per memo handed to memoit, in memoit order, each for its own
\* destination.
C11_Step ==
    /\ ServiceTxMemos =>
           /\ txms' = <<>>
           /\ txgs' = txgs \o [i \in 1..Len(txms) |-> <<txms[i][1], txms[i][2]>>]
    /\ (ServiceTxGrams /\ opened /\ txms = <<>>) =>
           /\ txgs' = <<>>
           /\ txbs' = Idle
           /\ last'.outs = [i \in 1..Len(txgs) |-> AcceptAll]
           /\ sent' = sent \o GramsFor(txgs)
           /\ sent' = GramsFor(memoed)

C11_SendOrder == [](IsPrefix(sent, GramsFor(memoed))) /\ [][C11_Step]_vars

\* "e acute" for "x" then "" for "y" were handed over, and one serviceTxGrams
\* sent both, in that order
C11_Witness ==
    /\ memoed = <<<<<<233>>, "x">>, <<<<>>, "y">>>>
    /\ sent = <<<<<<195, 169>>, "x">>, <<<<>>, "y">>>>
    /\ last.op = "serviceTxGrams" /\ Len(last.outs) = 2
    /\ txms = <<>> /\ txgs = <<>> /\ txbs = Idle

(* ----------------------- claims: send failures ------------------------- *)
\* the outcome of the last send the call described by l made, None if none
LastOut(l) == IF l.outs = <<>> THEN None ELSE l.outs[Len(l.outs)]

\* the failures counted in the peer-unreachable class: the errnos of
\* the far peer, and no buffer space on the transport
PeerClass == {Unreachable, NoBufs}

\* C12: error classification at the transmit step. A call whose send failed
\* with an error of the peer-unreachable class (no buffer space included)
\* raised nothing and left the Transmit Buffer idle, the gram dropped.
C12_PeerClassDropped ==
    LastOut(last) \in PeerClass => (~raised(last) /\ txbs = Idle)

\* the transmit side with the methods that serve both sides; nothing arrives
NextTxAll == NextTx \/ ServiceLocal \/ ServiceAllOnce \/ ServiceAll

SpecTxAll == Init /\ [][NextTxAll]_vars

\* C13: a send failure outside the peer-unreachable class is not swallowed.
\* In every call, the pass alone or inside serviceTxGrams, serviceAllTx or
\* serviceAll, such a failure is the last send of the call and the OSError
\* leaves the call.
C13_OtherPropagates ==
    \A i \in 1..Len(last.outs) :
        last.outs[i] = NoBufs => (i = Len(last.outs) /\ last.ret = "OSError")

\* the first send of a serviceAll failed and the call stopped there, with a
\* gram still queued
C13_Witness ==
    /\ last.op = "serviceAll"
    /\ last.outs = <<NoBufs>>
    /\ last.ret = "OSError"
    /\ txgs # <<>>

(* --------------------------- the doers --------------------------------- *)
\* MemoGramDoer and TymeeMemoGramDoer: the scheduler calls enter once, then
\* recur once per cycle, then exit; a doer that has exited can be entered
\* again.  The application hands memos over and datagrams arrive meanwhile.
Enter ==
    /\ doer # "running"
    /\ Call("enter", reopen(Self))
    /\ doer' = "running"
    /\ UNCHANGED <<memoed, narr, link, tyme>>
Recur ==
    /\ doer = "running"
    /\ \E e \in service(Self, link) : Call("recur", e)
    /\ UNCHANGED env
Exit ==
    /\ doer = "running"
    /\ Call("exit", close(Self))
    /\ doer' = "exited"
    /\ UNCHANGED <<memoed, narr, link, tyme>>

\* memoit calls and arrivals, MaxInputs of them together
Input == Len(memoed) + narr < MaxInputs /\ (Memoit \/ Arrive)

\* the methods of TymeeMemoGram, called on the composed engine
TymeeServiceLocal ==
    /\ \E e \in tymeeServiceLocal(Self, link) : Call("serviceLocal", e)
    /\ UNCHANGED env
TymeeServiceAllOnce ==
    /\ \E e \in tymeeServiceAllOnce(Self, link) : Call("serviceAllOnce", e)
    /\ UNCHANGED env
TymeeServiceAll ==
    /\ \E e \in tymeeServiceAll(Self, link) : Call("serviceAll", e)
    /\ UNCHANGED env

\* an engine composed with TymeeMemoGram, served directly and by its doer
NextTymee ==
    \/ Input
    \/ Open \/ Close
    \/ TymeeServiceLocal \/ TymeeServiceAllOnce \/ TymeeServiceAll
    \/ Enter \/ Recur \/ Exit

SpecTymee == Init /\ [][NextTymee]_vars

\* the call noted in l ran serviceTymers once, when the receive phase had
\* taken from the transport all the call took (inbox is what it left) and
\* no send had been made
HookedOnce(l, left) ==
    /\ Len(l.tyms) = 1
    /\ l.tyms[1].inbox = left
    /\ l.tyms[1].sends = 0

\* C14: the retry tymer hook. On an engine composed with TymeeMemoGram every
\* composite service call, serviceAllOnce, serviceAll, and the service() the
\* doer's recur makes each cycle, runs serviceTymers exactly once, after its
\* receive phase and before its transmit phase.
C14_Step ==
    (TymeeServiceAllOnce \/ TymeeServiceAll \/ Recur)
        => HookedOnce(last', inbox')

C14_TymersHookedOnce == [][C14_Step]_vars

(* --------------------------- the opened flag --------------------------- *)
\* both sides and the composites, against a transport that accepts every
\* send whole
SpecGate == InitLoop /\ [][Next]_vars

\* a call of a service method, public or the passes behind them
ServiceCall ==
    \/ RxMethods \/ TxMethods
    \/ ServiceLocal \/ ServiceAllOnce \/ ServiceAll

\* a call of a service method that only works the transport
TransportCall ==
    \/ ServiceReceivesOnce \/ ServiceReceives
    \/ ServiceTxGramsOnce \/ ServiceTxGrams
    \/ ServiceLocal

\* C15 as stated: the opened flag gates all service operations. While opened
\* is false no service call changes the Gram Receive Store, the Memo Receive
\* Queue, the Memo Transmit Queue, the Gram Transmit Queue or the Transmit
\* Buffer.
C15_Step ==
    (~opened /\ ServiceCall) => UNCHANGED <<rxgs, rxms, txms, txgs, txbs>>

C15_OpenedGatesAll == [][C15_Step]_vars

\* C15 amended: the opened flag gates the use of the transport. While opened
\* is false the calls that only work the transport (serviceReceivesOnce,
\* serviceReceives, serviceTxGramsOnce, serviceTxGrams, serviceLocal) change
\* nothing, and no service call, composite or not, takes a datagram from the
\* transport, sends, or changes the Transmit Buffer.
C15_AmendedStep ==
    /\ (~opened /\ TransportCall)
           => UNCHANGED <<rxgs, rxms, txms, txgs, txbs, inbox, sent>>
    /\ (~opened /\ ServiceCall)
           => (UNCHANGED <<inbox, sent, txbs>> /\ last'.outs = <<>>)

C15_OpenedGatesTransport == [][C15_AmendedStep]_vars

\* serviceTxGramsOnce was called on the closed engine with every gram ever
\* made still queued
C15_Witness ==
    /\ ~opened
    /\ last.op = "serviceTxGramsOnce"
    /\ txms = <<>> /\ txgs # <<>> /\ Len(txgs) = Len(memoed)
    /\ sent = <<>>

(* ------------------------ the doer's lifecycle ------------------------- *)
\* An engine served by its doer only: the application opens or closes it
\* itself only while the doer is not running.
NextDoer ==
    \/ Input
    \/ (doer # "running" /\ (Open \/ Close))
    \/ Enter \/ Recur \/ Exit

SpecDoer == Init /\ [][NextDoer]_vars

\* the attributes and the transport's ends are those of engine record e
Leaves(e) ==
    /\ opened' = e.opened /\ rxgs' = e.rxgs /\ rxms' = e.rxms
    /\ txms' = e.txms /\ txgs' = e.txgs /\ txbs' = e.txbs
    /\ inbox' = e.inbox /\ sent' = e.sent

\* C16: scheduler adapter lifecycle. enter leaves the engine opened whether
\* it was open or closed, by a reopen that is close-then-open and that done
\* twice leaves what it leaves done once; the engine is opened at every
\* recur between an enter and the exit that follows; each recur makes one
\* greedy composite service call (serviceAll) and nothing else; exit leaves
\* the engine closed.
C16_Step ==
    /\ Enter => /\ opened'
                /\ Leaves(open(close(Self)))
                /\ reopen(reopen(Self)) = reopen(Self)
    /\ Recur => /\ opened /\ opened'
                /\ \E e \in serviceAll(Self, link) :
                       /\ Leaves(e)
                       /\ last'.outs = e.outs /\ last'.got = e.got
                       /\ last'.ret = e.ret
    /\ Exit => ~opened'

C16_DoerLifecycle == [](doer = "running" => opened) /\ [][C16_Step]_vars

\* the doer was entered, received a memo and sent one in its recurs, and
\* has exited
C16_Witness ==
    /\ doer = "exited" /\ last.op = "exit" /\ ~opened
    /\ sent # <<>> /\ narr > 0 /\ inbox = <<>>

(* ------------------- claims: the result of a pass ---------------------- *)
\* C17: the result of a transmit pass. A _serviceOnceTxGrams that raised
\* nothing returned True exactly when it made a send that completed the gram
\* and the Transmit Buffer is idle after it; it returned False when it found
\* nothing to send and whenever bytes remain in the buffer after its send,
\* for every destination and every count the send returned.
C17_PassResult ==
    (last.op = "_serviceOnceTxGrams" /\ ~raised(last))
        => (last.ret = "True" <=> (last.outs # <<>> /\ txbs = Idle))

\* C18: every greedy service operation terminates. No call, of serviceTxGrams
\* or of a composite that contains it, goes on for ever, whatever the Gram
\* Transmit Queue, the destinations and the outcomes of the sends.
C18_GreedyTerminates == last.ret # "Hang"

\* C19: transmit-side conservation. A gram that a transmit pass takes off
\* the Gram Transmit Queue is, when the pass ends, however it ends, held in
\* the Transmit Buffer (its unsent suffix, for its destination), or accepted
\* whole by the transport, or dropped by a peer-unreachable failure.
C19_Step ==
    ((OnceTxGrams \/ ServiceTxGramsOnce) /\ Len(txgs') < Len(txgs)) =>
        LET gram == encode(Head(txgs)[1])
            dst  == Head(txgs)[2]
        IN  \/ /\ txbs'[2] = dst
               /\ txbs'[1] # <<>>
               /\ IsSuffix(txbs'[1], gram)
            \/ /\ txbs' = Idle
               /\ sent' = Append(sent, <<gram, dst>>)
            \/ /\ txbs' = Idle
               /\ LastOut(last') = Unreachable

C19_TxConservation == [][C19_Step]_vars

\* the number of grams queued in the store d
RECURSIVE GramCount(_)
GramCount(d) == IF d = <<>> THEN 0 ELSE Len(Head(d).grams) + GramCount(Tail(d))

\* C20: the result of a reassembly pass, and greedy reassembly. A pass
\* (_serviceOnceRxGrams) returns True if and only if some source both got a
\* memo appended in the pass and still has grams queued after it; greedy
\* reassembly (serviceRxGrams) ends with the store empty and with one memo
\* appended to the Memo Receive Queue per gram that was queued.
C20_Step ==
    /\ OnceRxGrams =>
           (last'.ret = "True" <=>
                \E i \in 1..Len(NewMemos) : HasSrc(rxgs', NewMemos[i][2]))
    /\ ServiceRxGrams =>
           /\ rxgs' = <<>>
           /\ IsPrefix(rxms, rxms')
           /\ Len(rxms') = Len(rxms) + GramCount(rxgs)

C20_ReassemblyResult == [][C20_Step]_vars

(* ----------------------- the non-greedy services ----------------------- *)
\* Both sides served one step at a time, against a transport whose sends
\* complete or are cut short.
NextOnce ==
    \/ Input
    \/ Lifecycle
    \/ ServiceReceivesOnce \/ ServiceRxGramsOnce \/ ServiceRxMemosOnce
    \/ ServiceTxMemosOnce \/ ServiceTxGramsOnce

\* a transport that may accept a send whole, in part or not at all
InitPartial == Fresh /\ link = PartialNet

SpecOnce == InitPartial /\ [][NextOnce]_vars

\* C21: segmentation pass. serviceTxMemosOnce takes exactly the oldest
\* (memo, destination) off the Memo Transmit Queue and appends its gram, for
\* the same destination, at the tail of the Gram Transmit Queue; on an empty
\* Memo Transmit Queue it changes nothing; it never changes the Transmit
\* Buffer, the receive side or the transport. So what waits in the Gram
\* Transmit Queue and behind it in the Memo Transmit Queue is always a tail
\* of what was handed to memoit, in that order.
C21_Step ==
    ServiceTxMemosOnce =>
        /\ IF txms = <<>>
           THEN UNCHANGED <<txms, txgs>>
           ELSE /\ txms' = Tail(txms)
                /\ txgs' = Append(txgs, <<Head(txms)[1], Head(txms)[2]>>)
        /\ UNCHANGED <<opened, txbs, rxgs, rxms, inbox, sent>>
        /\ last'.ret = None

C21_SegmentationPass ==
    [](IsSuffix(txgs \o txms, memoed)) /\ [][C21_Step]_vars

\* the second memo was segmented while the rest of the first was in flight
C21_Witness ==
    /\ last.op = "serviceTxMemosOnce"
    /\ Len(memoed) = 2
    /\ txms = <<>> /\ txgs = <<memoed[2]>>
    /\ txbs[2] # None

(* --------------------- claims: the placeholder codec ------------------- *)
\* the memos a step appends to the Memo Receive Queue for source src
NewMemosOf(src) == SelectSeq(NewMemos, LAMBDA m : m[2] = src)

\* the grams source src has in the store d, none if it is not a key
QueueOf(d, src) == IF HasSrc(d, src) THEN GramsOf(d, src) ELSE <<>>

\* C22: placeholder desegment. In a reassembly pass, for a source with a
\* non-empty gram queue desegment removes exactly the oldest gram and returns
\* it as a complete memo, which the pass appends; for a source with an empty
\* queue it returns the incomplete marker, raises nothing and the pass
\* appends no memo for the source.
C22_Step ==
    OnceRxGrams =>
        /\ ~raised(last')
        /\ \A i \in 1..Len(rxgs) :
               LET src == rxgs[i].src
                   q   == rxgs[i].grams
               IN  IF q # <<>>
                   THEN /\ Len(NewMemosOf(src)) = 1
                        /\ encode(NewMemosOf(src)[1][1]) = Head(q)
                        /\ QueueOf(rxgs', src) = Tail(q)
                   ELSE /\ NewMemosOf(src) = <<>>
                        /\ QueueOf(rxgs', src) = <<>>

C22_PlaceholderDesegment == [][C22_Step]_vars

(* --------------------- claims: the Transmit Buffer --------------------- *)
\* C23: Transmit Buffer consistency. Between operations, the destination of
\* the Transmit Buffer is the idle sentinel None if and only if the buffer
\* holds no bytes.
C23_BufferConsistent == (txbs[2] = None) <=> (txbs[1] = <<>>)

\* a partial send to the empty destination left its remainder in the buffer
C23_Witness ==
    /\ last.op = "_serviceOnceTxGrams"
    /\ txbs[2] = "" /\ txbs[1] # <<>>
    /\ sent # <<>>

(* --------------- claims: receive order and conservation ---------------- *)
\* the datagrams a step takes off the transport
TakenIn == SubSeq(inbox, 1, Len(inbox) - Len(inbox'))

\* the grams of the (gram, src) pairs of q that src sent and that hold data
GramsFrom(q, src) ==
    LET own == SelectSeq(q, LAMBDA p : p[2] = src /\ p[1] # <<>>)
    IN  [i \in 1..Len(own) |-> own[i][1]]

\* the grams that the (memo, src) entries of src in q were made from
MemoGrams(q, src) ==
    LET own == SelectSeq(q, LAMBDA p : p[2] = src)
    IN  [i \in 1..Len(own) |-> encode(own[i][1])]

\* what the engine holds of src, oldest first: its memos waiting in the Memo
\* Receive Queue, then its grams waiting in the Gram Receive Store
Held(ms, d, src) == MemoGrams(ms, src) \o QueueOf(d, src)

\* C24: receive-side order and conservation with the placeholder codec. In
\* every step of a receive-side operation, for every source, the memos the
\* step hands out followed by what the engine then holds of the source are
\* what it held before followed by the non-empty datagrams of the source the
\* step received: each such datagram makes exactly one memo, none twice, in
\* the order received.
C24_Step ==
    RxMethods =>
        \A src \in Srcs :
            MemoGrams(last'.got, src) \o Held(rxms', rxgs', src)
                = Held(rxms, rxgs, src) \o GramsFrom(TakenIn, src)

C24_RxOrderConservation == [][C24_Step]_vars

(* ----------------- claims: the passes of one gram ---------------------- *)
\* how many memos have left the Gram Transmit Queue: with one gram per memo,
\* the index in memoed of the gram that was last loaded into a pass
Loaded == Len(memoed) - Len(txms) - Len(txgs)

\* calls that run transmit passes
TxPassOps ==
    {"_serviceOnceTxGrams", "serviceTxGramsOnce", "serviceTxGrams",
     "serviceAllTxOnce", "serviceAllTx"}

\* the bytes the transport accepted in a step of one pass
AcceptedNow == IF sent' = sent THEN <<>> ELSE sent'[Len(sent')][1]

\* one pass that sends and does not raise: what it offered is what it was
\* left to send, the accepted bytes are a prefix of it and go on the wire
\* once, and the buffer keeps exactly the rest
C25_Step ==
    (OnceTxGrams /\ last'.outs # <<>> /\ ~raised(last')) =>
        /\ IsPrefix(sent, sent') /\ Len(sent') <= Len(sent) + 1
        /\ FirstGram = AcceptedNow \o txbs'[1]
        /\ last'.outs[1] = AcceptAll => AcceptedNow = FirstGram
        /\ sent' # sent => sent'[Len(sent')][2] = FirstDst

\* after a call whose last send did not raise, the bytes accepted for the
\* loaded gram, in order, followed by the bytes still in the buffer are the
\* gram as it was encoded; with the buffer idle they are the whole gram
C25_Whole ==
    (last.op \in TxPassOps /\ last.outs # <<>> /\ ~raised(last)) =>
        /\ Loaded >= 1
        /\ txbs[2] \in {None, memoed[Loaded][2]}
        /\ \E j \in 1..Len(sent) + 1 :
               /\ \A i \in j..Len(sent) : sent[i][2] = memoed[Loaded][2]
               /\ Joined(sent, j, Len(sent)) \o txbs[1]
                      = encode(memoed[Loaded][1])

\* C25: across the successive transmit passes of one gram, each pass offers
\* the transport exactly the still unsent suffix and removes exactly the
\* accepted prefix, no byte is sent twice or skipped, and when the buffer
\* returns to idle by completion the accepted byte ranges joined are the
\* original gram.
C25_NoByteTwiceOrSkipped == []C25_Whole /\ [][C25_Step]_vars

\* a two-byte gram went out in two passes of one byte each
C25_Witness ==
    /\ last.op = "_serviceOnceTxGrams" /\ last.ret = "True"
    /\ txbs = Idle
    /\ Len(sent) = 2 /\ Len(sent[1][1]) = 1 /\ Len(sent[2][1]) = 1
    /\ sent[1][1] \o sent[2][1] = encode(memoed[Loaded][1])

(* ------------- claims: the opened flag and the transport --------------- *)
\* The greedy loops test self.opened before every iteration. These are the
\* two loops with a close() of the engine run from elsewhere right after the
\* k-th iteration, before the loop's next test; a loop that ends earlier
\* never meets the close.

\* a greedy receive loop that tests opened on entry only
RECURSIVE serviceReceivesShutBlind(_, _)
serviceReceivesShutBlind(e, k) ==
    LET e1 == serviceOneReceived(e)
    IN  IF ~e.opened /\ k > 0 THEN return(e, None)
        ELSE IF e1.ret = "False" THEN return(e1, None)
        ELSE serviceReceivesShutBlind(IF k = 1 THEN close(e1) ELSE e1, k - 1)

RECURSIVE serviceReceivesShut(_, _)
serviceReceivesShut(e, k) ==
    IF ~e.opened THEN return(e, None)
    ELSE LET e1 == serviceOneReceived(e)
         IN  IF e1.ret = "False" THEN return(e1, None)
             ELSE serviceReceivesShut(IF k = 1 THEN close(e1) ELSE e1, k - 1)

RECURSIVE serviceTxGramsShut(_, _, _)
serviceTxGramsShut(e, net, k) ==
    IF ~(e.opened /\ e.txgs # <<>>) THEN {return(e, None)}
    ELSE UNION {IF raised(e1) THEN {e1}
                ELSE IF e1.ret = "False" THEN {return(e1, None)}
                ELSE IF k = 1 THEN serviceTxGramsShut(close(e1), net, k - 1)
                ELSE IF e1.txgs = e.txgs /\ e1.txbs = e.txbs
                THEN {return(e1, "Hang")}
                ELSE serviceTxGramsShut(e1, net, k - 1) :
                    e1 \in serviceOnceTxGramsAny(e, net)}

\* serviceReceives with a close after its k-th iteration
ReceivesShutAt(k) ==
    Call("serviceReceives/close", serviceReceivesShut(Self, k)) /\ UNCHANGED env

\* serviceTxGrams with a close after its k-th pass
TxGramsShutAt(k) ==
    /\ \E e \in serviceTxGramsShut(Self, link, k) : Call("serviceTxGrams/close", e)
    /\ UNCHANGED env

ServiceReceivesShut == opened /\ \E k \in 1..Len(inbox) : ReceivesShutAt(k)

ServiceTxGramsShut == opened /\ \E k \in 1..Len(txgs) : TxGramsShutAt(k)

\* the operations that reach the transport, alone and in every composite,
\* segmentation to feed them, and the two loops that meet a close
NextShut ==
    \/ Input
    \/ Lifecycle
    \/ ServiceReceivesOnce \/ ServiceReceives
    \/ ServiceTxMemos
    \/ ServiceTxGramsOnce \/ ServiceTxGrams
    \/ ServiceAllRxOnce \/ ServiceAllRx
    \/ ServiceAllTxOnce \/ ServiceAllTx
    \/ ServiceLocal \/ ServiceAllOnce \/ ServiceAll
    \/ ServiceReceivesShut \/ ServiceTxGramsShut

SpecShut == InitLoop /\ [][NextShut]_vars

\* C26: while opened is false no service operation calls the transport's
\* send or receive: the four gated operations and every composite take no
\* datagram from the transport and make no send; and a close that happens
\* between two iterations of a greedy loop stops it before the next transport
\* call, so a loop closed after its k-th iteration has received at most k
\* datagrams, or made at most k sends.
C26_Step ==
    /\ (~opened /\ ServiceCall)
           => (inbox' = inbox /\ sent' = sent /\ last'.outs = <<>>)
    /\ \A k \in 1..Len(inbox) :
           (opened /\ ReceivesShutAt(k)) =>
               /\ Len(inbox) - Len(inbox') <= k
               /\ sent' = sent
    /\ \A k \in 1..Len(txgs) :
           (opened /\ TxGramsShutAt(k)) =>
               /\ Len(last'.outs) <= k
               /\ inbox' = inbox

C26_ClosedMakesNoTransportCall == [][C26_Step]_vars

\* a greedy receive was closed after its first datagram and left the next
\* datagram, which holds data, at the transport
C26_Witness ==
    /\ last.op = "serviceReceives/close"
    /\ ~opened
    /\ Len(rxgs) = 1 /\ Len(rxgs[1].grams) = 1
    /\ inbox # <<>> /\ Head(inbox)[1] # <<>>

(* ---------------- claims: the frame of the lifecycle ------------------- *)
\* the single-step operations, the lifecycle and the doer, against a
\* transport that may accept a send in part
NextLife == NextOnce \/ Enter \/ Recur \/ Exit

SpecLife == InitPartial /\ [][NextLife]_vars

\* a call of open, close or reopen, by the application or by the doer
LifecycleCall == Open \/ Close \/ Reopen \/ Enter \/ Exit

\* C27: open, close and reopen, and so the doer's enter and exit, change
\* only the opened flag: the Gram Receive Store, both memo queues, the Gram
\* Transmit Queue and the Transmit Buffer with a partially sent remainder and
\* its destination are left as they were, and so is the transport; pending
\* work is there unchanged after a close and a reopen.
C27_Step ==
    /\ LifecycleCall
           => /\ UNCHANGED <<rxgs, rxms, txms, txgs, txbs, inbox, sent>>
              /\ last'.outs = <<>> /\ last'.got = <<>>
    /\ (Open \/ Reopen \/ Enter) => opened'
    /\ (Close \/ Exit) => ~opened'

C27_LifecycleFrame == [][C27_Step]_vars

\* a reopen found and left a partially sent gram in the Transmit Buffer and
\* another gram queued behind it
C27_Witness ==
    /\ last.op = "reopen" /\ opened
    /\ txbs[2] # None /\ txbs[1] # <<>>
    /\ txgs # <<>>
    /\ sent # <<>>

====
